---- MODULE Spec2Model ----
(***************************************************************************)
(* A model of jico, a command-line client for Jira Cloud (src/src/main.rs).*)
(* One behaviour of the model is one invocation of the binary: the command *)
(* line is parsed, the settings are read from the environment, the command *)
(* builds its request(s), the server answers, and the process exits with   *)
(* either a JSON value printed on standard output or an error.             *)
(*                                                                         *)
(* Representation.                                                         *)
(*  - Option<T>: None is <<>>, Some(x) is <<x>>.                            *)
(*  - serde_json::Value: a record tagged by t ("null", "str", "num",       *)
(*    "arr", "obj"); an object carries its map m, a function from keys.    *)
(*  - Strings the program only copies are TLA+ strings.  Strings the       *)
(*    program looks inside are sequences: a transition name is its sequence*)
(*    of code points (eq_ignore_ascii_case), a base URL and a request URL  *)
(*    are sequences of pieces in which "/" is a piece of its own           *)
(*    (trim_end_matches('/'), format!).                                    *)
(***************************************************************************)
EXTENDS Integers, Sequences, FiniteSets, TLC

VARIABLES
    pc,         \* position of main: "start", "parsed", "loaded", "awaiting", "exit"
    argv,       \* the command line as typed
    env,        \* the process environment (after .env was merged in)
    cli,        \* Option<Cli>: the parsed command
    settings,   \* Option<Settings>
    requests,   \* the HTTP requests sent so far, in order
    responses,  \* the HTTP responses (or transport failures) received so far
    stdout,     \* the values printed by print_json, in order
    error       \* Option<anyhow::Error>: the error main returned

vars == <<pc, argv, env, cli, settings, requests, responses, stdout, error>>

----------------------------------------------------------------------------
(* Option *)

None == <<>>
Some(x) == <<x>>
IsSome(o) == o # <<>>
Unwrap(o) == o[1]
Option(S) == {None} \cup {Some(x) : x \in S}
\* Option::or_else
OrElse(o, p) == IF IsSome(o) THEN o ELSE p

----------------------------------------------------------------------------
(* serde_json::Value *)

JNull == [t |-> "null"]
JStr(s) == [t |-> "str", s |-> s]
JNum(n) == [t |-> "num", n |-> n]
JArr(a) == [t |-> "arr", a |-> a]
JObj(m) == [t |-> "obj", m |-> m]
EmptyMap == [k \in {} |-> k]
\* json!({})
EmptyObject == JObj(EmptyMap)
\* Map::insert: a later value for the same key replaces the earlier one
Insert(m, k, v) == (k :> v) @@ m
\* Value::get(key) on any value
Get(v, k) == IF v.t = "obj" /\ k \in DOMAIN v.m THEN Some(v.m[k]) ELSE None
\* Value::as_str, Value::as_array
AsStr(v) == IF v.t = "str" THEN Some(v.s) ELSE None
AsArray(v) == IF v.t = "arr" THEN Some(v.a) ELSE None
\* json!(labels) for a Vec<String>
JStrings(seq) == JArr([i \in 1..Len(seq) |-> JStr(seq[i])])

\* Result<T>
Ok(v) == [ok |-> TRUE, value |-> v]
Err(e) == [ok |-> FALSE, err |-> e]

----------------------------------------------------------------------------
(* Bounds of the model *)

\* longest transitions list the server answers with
MaxTransitions == 2

\* --limit default
DefaultLimit == 20

----------------------------------------------------------------------------
(* Cli::parse (clap derive), main.rs 11-122 *)

\* ValueEnum::from_str for LinkRelation: kebab-case variant names, anything
\* else is a usage error reported by clap
ParseRelation(s) ==
    IF s = "blocks" THEN Ok("Blocks")
    ELSE IF s = "blocked-by" THEN Ok("BlockedBy")
    ELSE Err([kind |-> "usage", arg |-> "--relation", given |-> s])

\* Cli::parse: fills the declared defaults (--limit 20, --relation blocks) and
\* rejects a value outside a value_enum
CliParse(a) ==
    IF a.cmd = "list"
    THEN Ok([a EXCEPT !.limit = Some(IF IsSome(a.limit) THEN Unwrap(a.limit) ELSE DefaultLimit)])
    ELSE IF a.cmd = "link"
    THEN LET r == IF IsSome(a.relation) THEN ParseRelation(Unwrap(a.relation)) ELSE Ok("Blocks")
         IN IF r.ok THEN Ok([a EXCEPT !.relation = r.value]) ELSE r
    ELSE Ok(a)

----------------------------------------------------------------------------
(* LinkRelation, main.rs 124-140 *)

link_type_name(self) ==
    CASE self = "Blocks" -> "Blocks"
      [] self = "BlockedBy" -> "Blocks"

outward_inward_keys_same(self, key, to) ==
    <<to, key>>

\* <<outward, inward>>
outward_inward_keys(self, key, to) ==
    CASE self = "Blocks" -> <<to, key>>
      [] self = "BlockedBy" -> <<key, to>>

----------------------------------------------------------------------------
(* Settings, main.rs 142-175 *)

trim_one_slash(s) ==
    IF Len(s) > 0 /\ s[Len(s)] = "/" THEN SubSeq(s, 1, Len(s) - 1) ELSE s

\* str::trim_end_matches('/')
RECURSIVE trim_end_matches(_)
trim_end_matches(s) ==
    IF Len(s) > 0 /\ s[Len(s)] = "/"
    THEN trim_end_matches(SubSeq(s, 1, Len(s) - 1))
    ELSE s

required_env_or_default(e, key) ==
    Ok(IF IsSome(e[key]) THEN Unwrap(e[key]) ELSE <<>>)

\* required_env, main.rs 173-175
required_env(e, key) ==
    IF IsSome(e[key]) THEN Ok(Unwrap(e[key]))
    ELSE Err([kind |-> "missing_env", var |-> key])

\* Settings::load: the three required variables are read in this order and the
\* first one missing ends the load
SettingsLoad(e) ==
    LET base == required_env(e, "JIRA_BASE_URL")
        email == required_env(e, "JIRA_EMAIL")
        token == required_env(e, "JIRA_API_TOKEN")
    IN IF ~base.ok THEN base
       ELSE IF ~email.ok THEN email
       ELSE IF ~token.ok THEN token
       ELSE Ok([base_url |-> trim_end_matches(base.value),
                email |-> email.value,
                api_token |-> token.value,
                project_key |-> e["JIRA_PROJECT_KEY"],
                default_jql |-> e["JIRA_DEFAULT_JQL"]])

resolve_project_env_first(s, override_key) ==
    LET k == OrElse(s.project_key, override_key)
    IN IF IsSome(k) THEN Ok(Unwrap(k)) ELSE Err([kind |-> "project_required"])

\* resolve_project, main.rs 566-570
resolve_project(s, override_key) ==
    LET k == OrElse(override_key, s.project_key)
    IN IF IsSome(k) THEN Ok(Unwrap(k)) ELSE Err([kind |-> "project_required"])

description_to_adf_plain(text) ==
    JStr(text)

\* description_to_adf, main.rs 572-584
description_to_adf(text) ==
    JObj([type |-> JStr("doc"),
          version |-> JNum(1),
          content |-> JArr(<<JObj([type |-> JStr("paragraph"),
                                   content |-> JArr(<<JObj([type |-> JStr("text"),
                                                            text |-> JStr(text)])>>)])>>)])

----------------------------------------------------------------------------
(* Request URLs: format!("{}/rest/api/3/...", self.base_url, ...) *)

ApiRoot == <<"/", "rest", "/", "api", "/", "3">>
IssueUrl(base) == base \o ApiRoot \o <<"/", "issue">>
SearchUrl(base) == base \o ApiRoot \o <<"/", "search", "/", "jql">>
IssueKeyUrl(base, key) == IssueUrl(base) \o <<"/", key>>
SubtasksUrl(base, key) == IssueKeyUrl(base, key) \o <<"?fields=subtasks">>
TransitionsUrl(base, key) == IssueKeyUrl(base, key) \o <<"/", "transitions">>
IssueLinkUrl(base) == base \o ApiRoot \o <<"/", "issueLink">>

Request(method, url, body) == [method |-> method, url |-> url, body |-> body]

----------------------------------------------------------------------------
(* Request bodies *)

\* json!({ "key": k }), json!({ "name": n }), json!({ "accountId": a })
KeyObj(k) == JObj([key |-> JStr(k)])
NameObj(n) == JObj([name |-> JStr(n)])
AccountObj(a) == JObj([accountId |-> JStr(a)])

\* JiraClient::create_issue, main.rs 219-239: the fields map and the body
CreateFields(project_key, summary, description, issue_type, parent, labels, priority, assignee) ==
    LET f1 == Insert(EmptyMap, "project", KeyObj(project_key))
        f2 == Insert(f1, "summary", JStr(summary))
        f3 == Insert(f2, "issuetype", NameObj(issue_type))
        description_adf == IF IsSome(description)
                           THEN description_to_adf(Unwrap(description))
                           ELSE JNull
        f4 == Insert(f3, "description", description_adf)
        f5 == IF IsSome(parent) THEN Insert(f4, "parent", KeyObj(Unwrap(parent))) ELSE f4
        f6 == IF IsSome(labels) THEN Insert(f5, "labels", JStrings(Unwrap(labels))) ELSE f5
        f7 == IF IsSome(priority) THEN Insert(f6, "priority", NameObj(Unwrap(priority))) ELSE f6
        f8 == IF IsSome(assignee) THEN Insert(f7, "assignee", AccountObj(Unwrap(assignee))) ELSE f7
    IN f8

FieldsBody(fields) == JObj([fields |-> JObj(fields)])

CreateIssueTypeTask(issue_type, parent) ==
    IF IsSome(issue_type) THEN Unwrap(issue_type) ELSE "Task"

\* main (Commands::Create), main.rs 456-462: issue_type.unwrap_or_else(..)
CreateIssueType(issue_type, parent) ==
    IF IsSome(issue_type) THEN Unwrap(issue_type)
    ELSE IF IsSome(parent) THEN "Sub-task" ELSE "Task"

UpdateIssueTypeNoDefault(issue_type, parent) ==
    issue_type

\* main (Commands::Update), main.rs 523-529: issue_type.or_else(..)
UpdateIssueType(issue_type, parent) ==
    OrElse(issue_type, IF IsSome(parent) THEN Some("Sub-task") ELSE None)

UpdateFieldsNullLabels(c) ==
    LET f1 == IF IsSome(c.summary) THEN Insert(EmptyMap, "summary", JStr(Unwrap(c.summary))) ELSE EmptyMap
        f2 == IF IsSome(c.description)
              THEN Insert(f1, "description", description_to_adf(Unwrap(c.description))) ELSE f1
        f3 == IF IsSome(c.project) THEN Insert(f2, "project", KeyObj(Unwrap(c.project))) ELSE f2
        issue_type == UpdateIssueType(c.issue_type, c.parent)
        f4 == IF IsSome(issue_type) THEN Insert(f3, "issuetype", NameObj(Unwrap(issue_type))) ELSE f3
        f5 == IF IsSome(c.parent) THEN Insert(f4, "parent", KeyObj(Unwrap(c.parent))) ELSE f4
        f6 == Insert(f5, "labels", IF IsSome(c.labels) THEN JStrings(Unwrap(c.labels)) ELSE JNull)
        f7 == IF IsSome(c.priority) THEN Insert(f6, "priority", NameObj(Unwrap(c.priority))) ELSE f6
        f8 == IF IsSome(c.assignee) THEN Insert(f7, "assignee", AccountObj(Unwrap(c.assignee))) ELSE f7
    IN f8

\* main (Commands::Update), main.rs 513-544: the fields map
UpdateFields(c) ==
    LET f1 == IF IsSome(c.summary) THEN Insert(EmptyMap, "summary", JStr(Unwrap(c.summary))) ELSE EmptyMap
        f2 == IF IsSome(c.description)
              THEN Insert(f1, "description", description_to_adf(Unwrap(c.description))) ELSE f1
        f3 == IF IsSome(c.project) THEN Insert(f2, "project", KeyObj(Unwrap(c.project))) ELSE f2
        issue_type == UpdateIssueType(c.issue_type, c.parent)
        f4 == IF IsSome(issue_type) THEN Insert(f3, "issuetype", NameObj(Unwrap(issue_type))) ELSE f3
        f5 == IF IsSome(c.parent) THEN Insert(f4, "parent", KeyObj(Unwrap(c.parent))) ELSE f4
        f6 == IF IsSome(c.labels) THEN Insert(f5, "labels", JStrings(Unwrap(c.labels))) ELSE f5
        f7 == IF IsSome(c.priority) THEN Insert(f6, "priority", NameObj(Unwrap(c.priority))) ELSE f6
        f8 == IF IsSome(c.assignee) THEN Insert(f7, "assignee", AccountObj(Unwrap(c.assignee))) ELSE f7
    IN f8

\* JiraClient::list_issues, main.rs 262-265
ListBody(jql, limit) == JObj([jql |-> JStr(jql), maxResults |-> JNum(limit)])

ListJqlProjectFirst(s, c) ==
    LET p == resolve_project(s, c.project)
        built == IF p.ok THEN Some("project = " \o p.value \o " ORDER BY created DESC") ELSE None
        jql == OrElse(OrElse(c.jql, built), s.default_jql)
    IN IF IsSome(jql) THEN Ok(Unwrap(jql)) ELSE Err([kind |-> "no_jql"])

\* main (Commands::List), main.rs 482-489
ListJql(s, c) ==
    LET p == resolve_project(s, c.project)
        built == IF p.ok THEN Some("project = " \o p.value \o " ORDER BY created DESC") ELSE None
        jql == OrElse(OrElse(c.jql, s.default_jql), built)
    IN IF IsSome(jql) THEN Ok(Unwrap(jql)) ELSE Err([kind |-> "no_jql"])

\* JiraClient::link_issues, main.rs 407-412
LinkBody(key, to, relation) ==
    LET keys == outward_inward_keys(relation, key, to)
    IN JObj([type |-> NameObj(link_type_name(relation)),
             outwardIssue |-> KeyObj(keys[1]),
             inwardIssue |-> KeyObj(keys[2])])

\* JiraClient::transition_issue, main.rs 390
TransitionBody(id) == JObj([transition |-> JObj([id |-> JStr(id)])])

----------------------------------------------------------------------------
(* Transition resolution, main.rs 372-385 *)

\* u8::to_ascii_lowercase, applied to a code point: only A-Z change
to_ascii_lowercase(ch) == IF ch \in 65..90 THEN ch + 32 ELSE ch

\* str::eq_ignore_ascii_case
eq_ignore_ascii_case(a, b) ==
    /\ Len(a) = Len(b)
    /\ \A i \in 1..Len(a) : to_ascii_lowercase(a[i]) = to_ascii_lowercase(b[i])

NameMatchesDefaultTrue(t, target) ==
    LET n == Get(t, "name")
        str == IF IsSome(n) THEN AsStr(Unwrap(n)) ELSE None
    IN IF IsSome(str) THEN eq_ignore_ascii_case(Unwrap(str), target) ELSE TRUE

\* the closure of transitions.iter().find(..), main.rs 376-381
NameMatches(t, target) ==
    LET n == Get(t, "name")
        str == IF IsSome(n) THEN AsStr(Unwrap(n)) ELSE None
    IN IF IsSome(str) THEN eq_ignore_ascii_case(Unwrap(str), target) ELSE FALSE

FindLastTransition(transitions, target) ==
    LET hits == {i \in 1..Len(transitions) : NameMatches(transitions[i], target)}
    IN IF hits = {} THEN None
       ELSE Some(transitions[CHOOSE i \in hits : \A j \in hits : j <= i])

\* Iterator::find: the first element the closure accepts
FindTransition(transitions, target) ==
    LET hits == {i \in 1..Len(transitions) : NameMatches(transitions[i], target)}
    IN IF hits = {} THEN None
       ELSE Some(transitions[CHOOSE i \in hits : \A j \in hits : i <= j])

\* main.rs 372-385: Ok(transition id), or the error that ends the command
ResolveTransition(payload, target, key) ==
    LET t == Get(payload, "transitions")
        transitions == IF IsSome(t) THEN AsArray(Unwrap(t)) ELSE None
    IN IF ~IsSome(transitions) THEN Err([kind |-> "no_transitions"])
       ELSE LET target_transition == FindTransition(Unwrap(transitions), target)
                id == IF IsSome(target_transition) THEN Get(Unwrap(target_transition), "id") ELSE None
                transition_id == IF IsSome(id) THEN AsStr(Unwrap(id)) ELSE None
            IN IF IsSome(transition_id) THEN Ok(Unwrap(transition_id))
               ELSE Err([kind |-> "transition_unavailable", target |-> target, key |-> key])

----------------------------------------------------------------------------
(* Responses *)

NetErr == [kind |-> "neterr"]
Http(status, body) == [kind |-> "http", status |-> status, body |-> body]
EmptyBody == [kind |-> "empty"]
TextBody == [kind |-> "text"]
JsonBody(v) == [kind |-> "json", json |-> v]

\* StatusCode::is_success
is_success(status) == status \in 200..299

\* serde_json::from_slice on the body bytes: the empty input and a text that
\* is not JSON are both parse errors
from_slice(body) ==
    IF body.kind = "json" THEN Ok(body.json) ELSE Err([kind |-> "parse"])

StatusError(status, value) ==
    [kind |-> "status", status |-> status, body |-> value, fetching |-> FALSE]

\* .send().await.context(..)?; resp.json().await.context(..)?; then the status
\* check: the shape of main.rs 241-256, 266-281, 286-300, 305-318, 387-402
JsonResponse(resp, what) ==
    IF resp.kind = "neterr" THEN Err([kind |-> "send", what |-> what])
    ELSE LET value == from_slice(resp.body)
         IN IF ~value.ok THEN Err([kind |-> "parse", what |-> what])
            ELSE IF ~is_success(resp.status) THEN Err(StatusError(resp.status, value.value))
            ELSE Ok(value.value)

BytesResponseStrict(resp, what) ==
    JsonResponse(resp, what)

\* .send().await.context(..)?; resp.bytes(); an empty body is json!({}); then
\* the status check: the shape of main.rs 329-349 and 414-434
BytesResponse(resp, what) ==
    IF resp.kind = "neterr" THEN Err([kind |-> "send", what |-> what])
    ELSE LET value == IF resp.body.kind = "empty" THEN Ok(EmptyObject) ELSE from_slice(resp.body)
         IN IF ~value.ok THEN Err([kind |-> "parse", what |-> what])
            ELSE IF ~is_success(resp.status) THEN Err(StatusError(resp.status, value.value))
            ELSE Ok(value.value)

\* JiraClient::create_issue, main.rs 241-256
create_issue_result(resp) == JsonResponse(resp, "create issue")

\* JiraClient::list_issues, main.rs 266-281
list_issues_result(resp) == JsonResponse(resp, "search")

\* JiraClient::get_issue, main.rs 286-300
get_issue_result(resp) == JsonResponse(resp, "get issue")

get_issue_subtasks_result_whole(resp) ==
    JsonResponse(resp, "get issue subtasks")

\* JiraClient::get_issue_subtasks, main.rs 305-323
get_issue_subtasks_result(resp) ==
    LET r == JsonResponse(resp, "get issue subtasks")
    IN IF ~r.ok THEN r
       ELSE LET fields == Get(r.value, "fields")
                subtasks == IF IsSome(fields) THEN Get(Unwrap(fields), "subtasks") ELSE None
            IN Ok(IF IsSome(subtasks) THEN Unwrap(subtasks) ELSE JArr(<<>>))

\* JiraClient::update_issue, main.rs 329-349
update_issue_result(resp) == BytesResponse(resp, "update issue")

transition_fetch_result_any_status(resp, target, key) ==
    IF resp.kind = "neterr" THEN Err([kind |-> "send", what |-> "transitions"])
    ELSE LET payload == from_slice(resp.body)
         IN IF ~payload.ok THEN Err([kind |-> "parse", what |-> "transitions"])
            ELSE ResolveTransition(payload.value, target, key)

\* JiraClient::transition_issue, main.rs 354-385: the answer to the GET, up to
\* the transition id
transition_fetch_result(resp, target, key) ==
    IF resp.kind = "neterr" THEN Err([kind |-> "send", what |-> "transitions"])
    ELSE LET payload == from_slice(resp.body)
         IN IF ~payload.ok THEN Err([kind |-> "parse", what |-> "transitions"])
            ELSE IF ~is_success(resp.status)
                 THEN Err([StatusError(resp.status, payload.value) EXCEPT !.fetching = TRUE])
            ELSE ResolveTransition(payload.value, target, key)

\* JiraClient::transition_issue, main.rs 387-402: the answer to the POST
transition_apply_result(resp) == JsonResponse(resp, "transition")

\* JiraClient::link_issues, main.rs 414-434
link_issues_result(resp) == BytesResponse(resp, "issue link")

----------------------------------------------------------------------------
(* The inputs of one invocation *)

Keys == {"MG-3", "MG-26"}

\* transition names, as code points: "Go", "gO" and the non-ASCII pair
\* U+00C9 / U+00E9, whose two cases eq_ignore_ascii_case keeps apart
NameGo == <<71, 111>>
NamegO == <<103, 79>>
NameEacuteUpper == <<201>>
NameEacuteLower == <<233>>

CreateArgvs ==
    [cmd : {"create"}, summary : {"Title"}, description : Option({"Desc"}),
     project : Option({"ACME"}), issue_type : Option({"Bug"}),
     parent : Option({"ACME-1"}), labels : Option({<<"bug", "ui">>}),
     priority : Option({"High"}), assignee : Option({"abc"})]

ListArgvs ==
    [cmd : {"list"}, jql : Option({"assignee = currentUser()"}),
     limit : Option({5}), project : Option({"ACME"})]

ViewArgvs == [cmd : {"view"}, key : {"ACME-1"}, subtasks : BOOLEAN]

UpdateArgvs ==
    [cmd : {"update"}, key : {"ACME-2"}, summary : Option({"New summary"}),
     description : Option({"Desc"}), project : Option({"OTHER"}),
     issue_type : Option({"Bug"}), parent : Option({"ACME-1"}),
     labels : Option({<<"backend">>}), priority : Option({"Medium"}),
     assignee : Option({"xyz"})]

TransitionArgvs == [cmd : {"transition"}, key : {"MG-3"}, to : {NamegO, NameEacuteLower}]

LinkArgvs ==
    [cmd : {"link"}, key : Keys, to : Keys,
     relation : Option({"blocks", "blocked-by", "clones"})]

Envs ==
    [JIRA_BASE_URL : Option({<<"https://jira.test">>, <<"https://jira.test", "/">>,
                             <<"https://jira.test", "/", "/">>}),
     JIRA_EMAIL : Option({"user@example.com"}),
     JIRA_API_TOKEN : Option({"token"}),
     JIRA_PROJECT_KEY : Option({"ENVP"}),
     JIRA_DEFAULT_JQL : Option({"project = ENVP"})]

Statuses == {200, 204, 404}

\* documents a Jira server answers with
IssueDoc == JObj([id |-> JStr("10000")])
ErrorDoc == JObj([errorMessages |-> JArr(<<JStr("nope")>>)])
SubtasksDoc == JObj([fields |-> JObj([subtasks |-> JArr(<<KeyObj("ACME-2")>>)])])
NoSubtasksDoc == JObj([fields |-> JObj([summary |-> JStr("Title")])])
FieldsNotObjectDoc == JObj([fields |-> JStr("subtasks")])

\* one element of a transitions list: name and id are each absent, a string,
\* or (the id) a number
TransitionEntries ==
    { (IF IsSome(n) THEN [name |-> JStr(Unwrap(n))] ELSE EmptyMap)
        @@ (IF IsSome(i) THEN [id |-> Unwrap(i)] ELSE EmptyMap) :
      n \in Option({NameGo, NameEacuteUpper}),
      i \in Option({JStr("11"), JStr("31"), JNum(7)}) }

RECURSIVE SeqsUpTo(_, _)
SeqsUpTo(S, n) ==
    IF n = 0 THEN {<<>>}
    ELSE LET shorter == SeqsUpTo(S, n - 1)
         IN shorter \cup {Append(q, x) : q \in shorter, x \in S}

TransitionLists == SeqsUpTo({JObj(e) : e \in TransitionEntries}, MaxTransitions)

TransitionDocs ==
    {JObj([transitions |-> JArr(l)]) : l \in TransitionLists}
        \cup {ErrorDoc, JObj([transitions |-> JStr("none")])}

Responses(docs) ==
    {NetErr} \cup {Http(st, b) : st \in Statuses,
                                 b \in {EmptyBody, TextBody} \cup {JsonBody(d) : d \in docs}}

----------------------------------------------------------------------------
(* One invocation of main, main.rs 438-564 *)

Init ==
    /\ pc = "start"
    /\ \/ argv \in CreateArgvs
       \/ argv \in ListArgvs
       \/ argv \in ViewArgvs
       \/ argv \in UpdateArgvs
       \/ argv \in TransitionArgvs
       \/ argv \in LinkArgvs
    /\ env \in Envs
    /\ cli = None
    /\ settings = None
    /\ requests = <<>>
    /\ responses = <<>>
    /\ stdout = <<>>
    /\ error = None

\* `?` on an Err: main returns the error, nothing more is sent or printed
Fail(e) ==
    /\ error' = Some(e)
    /\ pc' = "exit"

\* a client call went out: main is suspended at its .await
Send(req) ==
    /\ requests' = Append(requests, req)
    /\ pc' = "awaiting"

FinishPrintFirst(result) ==
    /\ pc' = "exit"
    /\ stdout' = Append(stdout, IF result.ok THEN result.value ELSE EmptyObject)
    /\ error' = IF result.ok THEN error ELSE Some(result.err)

\* client.xxx(..).await?; print_json(&value)
Finish(result) ==
    /\ pc' = "exit"
    /\ IF result.ok
       THEN stdout' = Append(stdout, result.value) /\ error' = error
       ELSE stdout' = stdout /\ error' = Some(result.err)

\* main.rs 440: Cli::parse()
ParseCli ==
    /\ pc = "start"
    /\ LET r == CliParse(argv)
       IN IF r.ok
          THEN cli' = Some(r.value) /\ pc' = "parsed" /\ error' = error
          ELSE cli' = cli /\ Fail(r.err)
    /\ UNCHANGED <<argv, env, settings, requests, responses, stdout>>

\* main.rs 441-442: Settings::load()?, JiraClient::new(&settings)?
LoadSettings ==
    /\ pc = "parsed"
    /\ LET r == SettingsLoad(env)
       IN IF r.ok
          THEN settings' = Some(r.value) /\ pc' = "loaded" /\ error' = error
          ELSE settings' = settings /\ Fail(r.err)
    /\ UNCHANGED <<argv, env, cli, requests, responses, stdout>>

Command == Unwrap(cli)
BaseUrl == Unwrap(settings).base_url

\* main.rs 445-474, up to the .await of create_issue
CreateCmd ==
    /\ pc = "loaded" /\ Command.cmd = "create"
    /\ LET c == Command
           project_key == resolve_project(Unwrap(settings), c.project)
           issue_type == CreateIssueType(c.issue_type, c.parent)
       IN IF ~project_key.ok
          THEN Fail(project_key.err) /\ requests' = requests
          ELSE /\ Send(Request("POST", IssueUrl(BaseUrl),
                         Some(FieldsBody(CreateFields(project_key.value, c.summary,
                              c.description, issue_type, c.parent, c.labels,
                              c.priority, c.assignee)))))
               /\ error' = error
    /\ UNCHANGED <<argv, env, cli, settings, responses, stdout>>

\* main.rs 477-490, up to the .await of list_issues
ListCmd ==
    /\ pc = "loaded" /\ Command.cmd = "list"
    /\ LET c == Command
           jql == ListJql(Unwrap(settings), c)
       IN IF ~jql.ok
          THEN Fail(jql.err) /\ requests' = requests
          ELSE /\ Send(Request("POST", SearchUrl(BaseUrl),
                               Some(ListBody(jql.value, Unwrap(c.limit)))))
               /\ error' = error
    /\ UNCHANGED <<argv, env, cli, settings, responses, stdout>>

\* main.rs 493-500, up to the .await of get_issue / get_issue_subtasks
ViewCmd ==
    /\ pc = "loaded" /\ Command.cmd = "view"
    /\ IF Command.subtasks
       THEN Send(Request("GET", SubtasksUrl(BaseUrl, Command.key), None))
       ELSE Send(Request("GET", IssueKeyUrl(BaseUrl, Command.key), None))
    /\ UNCHANGED <<argv, env, cli, settings, responses, stdout, error>>

UpdateCmdUnchecked ==
    /\ pc = "loaded" /\ Command.cmd = "update"
    /\ Send(Request("PUT", IssueKeyUrl(BaseUrl, Command.key),
                    Some(FieldsBody(UpdateFields(Command)))))
    /\ UNCHANGED <<argv, env, cli, settings, responses, stdout, error>>

\* main.rs 502-550, up to the .await of update_issue
UpdateCmd ==
    /\ pc = "loaded" /\ Command.cmd = "update"
    /\ LET fields == UpdateFields(Command)
       IN IF DOMAIN fields = {}
          THEN Fail([kind |-> "no_update_fields"]) /\ requests' = requests
          ELSE /\ Send(Request("PUT", IssueKeyUrl(BaseUrl, Command.key),
                               Some(FieldsBody(fields))))
               /\ error' = error
    /\ UNCHANGED <<argv, env, cli, settings, responses, stdout>>

\* main.rs 553-554 and 352-359: the GET of the transitions list goes out
TransitionCmd ==
    /\ pc = "loaded" /\ Command.cmd = "transition"
    /\ Send(Request("GET", TransitionsUrl(BaseUrl, Command.key), None))
    /\ UNCHANGED <<argv, env, cli, settings, responses, stdout, error>>

\* main.rs 557-558 and 405-420: the POST of the link goes out
LinkCmd ==
    /\ pc = "loaded" /\ Command.cmd = "link"
    /\ Send(Request("POST", IssueLinkUrl(BaseUrl),
                    Some(LinkBody(Command.key, Command.to, Command.relation))))
    /\ UNCHANGED <<argv, env, cli, settings, responses, stdout, error>>

\* the .await of the one request of create, list, view, update and link
\* resumes with the server's answer; main prints or fails
Awaiting(cmd) == pc = "awaiting" /\ Command.cmd = cmd

CreateDone ==
    /\ Awaiting("create")
    /\ \E resp \in Responses({IssueDoc, ErrorDoc}) :
         /\ responses' = Append(responses, resp)
         /\ Finish(create_issue_result(resp))
    /\ UNCHANGED <<argv, env, cli, settings, requests>>

ListDone ==
    /\ Awaiting("list")
    /\ \E resp \in Responses({IssueDoc, ErrorDoc}) :
         /\ responses' = Append(responses, resp)
         /\ Finish(list_issues_result(resp))
    /\ UNCHANGED <<argv, env, cli, settings, requests>>

ViewDone ==
    /\ Awaiting("view")
    /\ \E resp \in Responses({IssueDoc, ErrorDoc, SubtasksDoc, NoSubtasksDoc, FieldsNotObjectDoc}) :
         /\ responses' = Append(responses, resp)
         /\ Finish(IF Command.subtasks THEN get_issue_subtasks_result(resp)
                   ELSE get_issue_result(resp))
    /\ UNCHANGED <<argv, env, cli, settings, requests>>

UpdateDone ==
    /\ Awaiting("update")
    /\ \E resp \in Responses({IssueDoc, ErrorDoc}) :
         /\ responses' = Append(responses, resp)
         /\ Finish(update_issue_result(resp))
    /\ UNCHANGED <<argv, env, cli, settings, requests>>

LinkDone ==
    /\ Awaiting("link")
    /\ \E resp \in Responses({IssueDoc, ErrorDoc}) :
         /\ responses' = Append(responses, resp)
         /\ Finish(link_issues_result(resp))
    /\ UNCHANGED <<argv, env, cli, settings, requests>>

\* main.rs 360-393: the transitions list arrived; the id is resolved and the
\* POST goes out, or the command fails
TransitionFetched ==
    /\ Awaiting("transition") /\ Len(requests) = 1
    /\ \E resp \in Responses(TransitionDocs) :
         /\ responses' = Append(responses, resp)
         /\ LET r == transition_fetch_result(resp, Command.to, Command.key)
            IN IF r.ok
               THEN /\ Send(Request("POST", TransitionsUrl(BaseUrl, Command.key),
                                    Some(TransitionBody(r.value))))
                    /\ error' = error
               ELSE Fail(r.err) /\ requests' = requests
    /\ UNCHANGED <<argv, env, cli, settings, stdout>>

\* main.rs 394-402 and 555: the answer to the POST arrived
TransitionApplied ==
    /\ Awaiting("transition") /\ Len(requests) = 2
    /\ \E resp \in Responses({IssueDoc, ErrorDoc}) :
         /\ responses' = Append(responses, resp)
         /\ Finish(transition_apply_result(resp))
    /\ UNCHANGED <<argv, env, cli, settings, requests>>

Next ==
    \/ ParseCli
    \/ LoadSettings
    \/ CreateCmd
    \/ ListCmd
    \/ ViewCmd
    \/ UpdateCmd
    \/ TransitionCmd
    \/ LinkCmd
    \/ CreateDone
    \/ ListDone
    \/ ViewDone
    \/ UpdateDone
    \/ LinkDone
    \/ TransitionFetched
    \/ TransitionApplied

Spec == Init /\ [][Next]_vars

----------------------------------------------------------------------------
(* Properties *)

Exited == pc = "exit"
Failed == IsSome(error)
FailedWith(kind) == IsSome(error) /\ Unwrap(error).kind = kind
Succeeded == pc = "exit" /\ error = None
RequiredEnvSet ==
    IsSome(env["JIRA_BASE_URL"]) /\ IsSome(env["JIRA_EMAIL"]) /\ IsSome(env["JIRA_API_TOKEN"])
\* the body of the i-th request sent
SentBody(i) == Unwrap(requests[i].body)
\* the fields map of the i-th request sent (create, update)
SentFields(i) == SentBody(i).m.fields.m
\* the i-th answer was an HTTP response with a 2xx status / with another status
Answered2xx(i) == responses[i].kind = "http" /\ responses[i].status \in 200..299
AnsweredNon2xx(i) == responses[i].kind = "http" /\ responses[i].status \notin 200..299
\* the path every request URL ends with, after the base URL
UrlPath(i) == SubSeq(requests[i].url, Len(BaseUrl) + 1, Len(requests[i].url))
IssueLinkPath == <<"/", "rest", "/", "api", "/", "3", "/", "issueLink">>
LinkPayload(typeName, outward, inward) ==
    JObj([type |-> JObj([name |-> JStr(typeName)]),
          outwardIssue |-> JObj([key |-> JStr(outward)]),
          inwardIssue |-> JObj([key |-> JStr(inward)])])

\* C1: link from A to B with relation "blocks" posts to /issueLink a body with
\* outwardIssue.key = B and inwardIssue.key = A; with "blocked-by" it posts
\* outwardIssue.key = A and inwardIssue.key = B; both with type.name "Blocks";
\* and once the settings are loaded the request is the one request sent.
C1_LinkDirection ==
    (argv.cmd = "link" /\ argv.relation \in {Some("blocks"), Some("blocked-by")}) =>
        /\ (pc \in {"awaiting", "exit"} /\ IsSome(settings)) => Len(requests) = 1
        /\ requests # <<>> =>
             /\ requests[1].method = "POST"
             /\ UrlPath(1) = IssueLinkPath
             /\ argv.relation = Some("blocks") =>
                    SentBody(1) = LinkPayload("Blocks", argv.to, argv.key)
             /\ argv.relation = Some("blocked-by") =>
                    SentBody(1) = LinkPayload("Blocks", argv.key, argv.to)

C1_Witness ==
    /\ argv.cmd = "link" /\ argv.relation = Some("blocked-by")
    /\ argv.key # argv.to
    /\ Len(requests) = 1
    /\ SentBody(1) = LinkPayload("Blocks", argv.key, argv.to)

\* C2: link from A to B with relation "clones" is accepted: with the required
\* environment set it sends exactly one POST /issueLink with type.name
\* "Cloners", outwardIssue.key = B, inwardIssue.key = A, and on a 2xx answer
\* with an empty body it prints {}.
C2_ClonesAccepted ==
    (argv.cmd = "link" /\ argv.relation = Some("clones") /\ RequiredEnvSet /\ Exited) =>
        /\ Len(requests) = 1
        /\ requests[1].method = "POST"
        /\ UrlPath(1) = IssueLinkPath
        /\ SentBody(1) = LinkPayload("Cloners", argv.to, argv.key)
        /\ (Answered2xx(1) /\ responses[1].body = EmptyBody) =>
               (error = None /\ stdout = <<EmptyObject>>)

\* a name with its ASCII capitals lowered, and "entry e is named like target"
\* (e has a string member "name" equal to the target up to ASCII case)
FoldAscii(n) == [i \in 1..Len(n) |-> IF n[i] >= 65 /\ n[i] <= 90 THEN n[i] + 32 ELSE n[i]]
NamedLike(e, target) ==
    /\ e.t = "obj" /\ "name" \in DOMAIN e.m
    /\ e.m["name"].t = "str"
    /\ FoldAscii(e.m["name"].s) = FoldAscii(target)
HasStringId(e) == e.t = "obj" /\ "id" \in DOMAIN e.m /\ e.m["id"].t = "str"
\* the GET of the transitions list was answered 2xx with a JSON object whose
\* member "transitions" is an array
FetchedList ==
    /\ argv.cmd = "transition" /\ Len(responses) >= 1
    /\ Answered2xx(1) /\ responses[1].body.kind = "json"
    /\ responses[1].body.json.t = "obj"
    /\ "transitions" \in DOMAIN responses[1].body.json.m
    /\ responses[1].body.json.m["transitions"].t = "arr"
TheList == responses[1].body.json.m["transitions"].a
Matching == {i \in 1..Len(TheList) : NamedLike(TheList[i], argv.to)}
FirstMatch == TheList[CHOOSE i \in Matching : \A j \in 1..(i - 1) : j \notin Matching]
TransitionsPath(key) ==
    <<"/", "rest", "/", "api", "/", "3", "/", "issue", "/", key, "/", "transitions">>
PostedTransition(id) ==
    /\ Len(requests) = 2
    /\ requests[2].method = "POST"
    /\ UrlPath(2) = TransitionsPath(argv.key)
    /\ SentBody(2) = JObj([transition |-> JObj([id |-> id])])

\* C3: transition of issue K to T: when the fetched transitions list has no
\* entry named like T (up to ASCII case), the command ends in the error that
\* names K and T, and no POST is sent: the GET stays the only request.
C3_UnmatchedTransitionFails ==
    (FetchedList /\ Matching = {}) =>
        /\ Exited
        /\ FailedWith("transition_unavailable")
        /\ Unwrap(error).key = argv.key
        /\ Unwrap(error).target = argv.to
        /\ Len(requests) = 1 /\ requests[1].method = "GET"
        /\ stdout = <<>>

C3_Witness ==
    /\ FetchedList /\ Matching = {} /\ Len(TheList) = 2
    /\ \E i \in 1..2 : HasStringId(TheList[i])
    /\ \E i \in 1..2 : "name" \in DOMAIN TheList[i].m
    /\ FailedWith("transition_unavailable")

\* C4 as stated: whenever the fetched list has an entry named like T, the id
\* of the first such entry is posted, and the match is not reported as an error.
C4_MatchAlwaysPosted ==
    (FetchedList /\ Matching # {}) =>
        /\ "id" \in DOMAIN FirstMatch.m
        /\ PostedTransition(FirstMatch.m["id"])
        /\ ~FailedWith("transition_unavailable")

\* C4, amended: whenever the fetched list has an entry named like T (up to
\* ASCII case), the first such entry alone decides: if its id is a string,
\* that id is posted as {transition: {id}} and the match is not reported as an
\* error; if it has no string id, the command ends in the 'not available'
\* error and no POST is sent.  Later entries never influence the outcome.
C4_FirstMatchDecides ==
    (FetchedList /\ Matching # {}) =>
        IF HasStringId(FirstMatch)
        THEN /\ PostedTransition(FirstMatch.m["id"])
             /\ ~FailedWith("transition_unavailable")
             /\ ~FailedWith("no_transitions")
        ELSE /\ Exited /\ FailedWith("transition_unavailable")
             /\ Len(requests) = 1

C4_Witness ==
    /\ FetchedList /\ Len(TheList) = 2
    /\ Matching = {1, 2}
    /\ HasStringId(TheList[1]) /\ HasStringId(TheList[2])
    /\ TheList[1].m["id"] # TheList[2].m["id"]
    /\ PostedTransition(TheList[1].m["id"])

AllUpdateFlagsAbsent ==
    /\ argv.summary = None /\ argv.description = None /\ argv.project = None
    /\ argv.issue_type = None /\ argv.parent = None /\ argv.labels = None
    /\ argv.priority = None /\ argv.assignee = None

\* C5: update with none of the eight field flags never sends a request and
\* never prints; it ends in an error.
C5_EmptyUpdateRejected ==
    (argv.cmd = "update" /\ AllUpdateFlagsAbsent) =>
        /\ requests = <<>>
        /\ stdout = <<>>
        /\ pc \notin {"awaiting"}
        /\ Exited => Failed

C5_Witness ==
    /\ argv.cmd = "update" /\ AllUpdateFlagsAbsent
    /\ IsSome(settings)
    /\ Exited /\ FailedWith("no_update_fields") /\ requests = <<>>

\* C6: update and link answered with a 2xx status and an empty body succeed
\* with the empty JSON object {} as the printed result.
C6_EmptyBodyIsEmptyObject ==
    (argv.cmd \in {"update", "link"} /\ Len(responses) = 1
        /\ Answered2xx(1) /\ responses[1].body = EmptyBody) =>
        /\ Succeeded
        /\ stdout = <<JObj([k \in {} |-> k])>>

C6_Witness ==
    /\ argv.cmd \in {"update", "link"} /\ Len(responses) = 1
    /\ responses[1] = Http(204, EmptyBody)
    /\ Succeeded /\ stdout = <<EmptyObject>>

\* C7: for every call of every command, a 2xx answer with an empty body is
\* treated as {}: it is never a parse error, and the command whose last
\* request it answers succeeds (in particular the POST of a transition).
C7_EmptyBodyNeverParseError ==
    \A i \in 1..Len(responses) :
        (Answered2xx(i) /\ responses[i].body = EmptyBody) =>
            /\ ~FailedWith("parse")
            /\ (argv.cmd = "transition" => i = 2) => Succeeded

\* C8: for every call, a non-2xx answer ends the command in the error that
\* carries that status code and the response body, whatever the body is.
C8_Non2xxIsStatusError ==
    \A i \in 1..Len(responses) :
        AnsweredNon2xx(i) =>
            /\ Exited /\ stdout = <<>>
            /\ FailedWith("status")
            /\ Unwrap(error).status = responses[i].status
            /\ responses[i].body.kind = "json" => Unwrap(error).body = responses[i].body.json

\* C9: create sends issuetype.name = the explicit --issue-type when given,
\* otherwise "Sub-task" with --parent and "Task" without.
C9_CreateIssueType ==
    (argv.cmd = "create" /\ requests # <<>>) =>
        /\ Len(requests) = 1
        /\ "issuetype" \in DOMAIN SentFields(1)
        /\ IsSome(argv.issue_type) =>
               SentFields(1)["issuetype"] = JObj([name |-> JStr(Unwrap(argv.issue_type))])
        /\ (argv.issue_type = None /\ IsSome(argv.parent)) =>
               SentFields(1)["issuetype"] = JObj([name |-> JStr("Sub-task")])
        /\ (argv.issue_type = None /\ argv.parent = None) =>
               SentFields(1)["issuetype"] = JObj([name |-> JStr("Task")])

C9_Witness ==
    /\ argv.cmd = "create" /\ argv.issue_type = None /\ IsSome(argv.parent)
    /\ Len(requests) = 1
    /\ SentFields(1)["issuetype"] = JObj([name |-> JStr("Sub-task")])

OnlyParentGiven ==
    /\ IsSome(argv.parent) /\ argv.issue_type = None
    /\ argv.summary = None /\ argv.description = None /\ argv.project = None
    /\ argv.labels = None /\ argv.priority = None /\ argv.assignee = None

\* C10: update with --parent P alone puts exactly
\* {fields: {issuetype: {name: "Sub-task"}, parent: {key: P}}}; with an
\* explicit --issue-type X the issuetype sent is X; with neither --parent nor
\* --issue-type no issuetype key is sent.
C10_UpdateIssueType ==
    (argv.cmd = "update" /\ requests # <<>>) =>
        /\ requests[1].method = "PUT"
        /\ OnlyParentGiven =>
               SentBody(1) = JObj([fields |-> JObj(
                   [issuetype |-> JObj([name |-> JStr("Sub-task")]),
                    parent |-> JObj([key |-> JStr(Unwrap(argv.parent))])])])
        /\ IsSome(argv.issue_type) =>
               /\ "issuetype" \in DOMAIN SentFields(1)
               /\ SentFields(1)["issuetype"] = JObj([name |-> JStr(Unwrap(argv.issue_type))])
        /\ (argv.issue_type = None /\ argv.parent = None) =>
               "issuetype" \notin DOMAIN SentFields(1)

C10_Witness ==
    /\ argv.cmd = "update" /\ OnlyParentGiven
    /\ Len(requests) = 1
    /\ DOMAIN SentFields(1) = {"issuetype", "parent"}

\* the fields keys of the flags given on the command line (create: the
\* optional flags that have a key of their own; update: all eight)
SuppliedCreateKeys ==
    {k \in {"parent", "labels", "priority", "assignee"} : IsSome(argv[k])}
SuppliedUpdateKeys ==
    {k \in {"summary", "description", "project", "parent", "labels", "priority", "assignee"} :
        IsSome(argv[k])}
        \cup (IF IsSome(argv.issue_type) THEN {"issuetype"} ELSE {})
NoNullExcept(fields, allowed) ==
    \A k \in DOMAIN fields : fields[k] = [t |-> "null"] => k \in allowed

\* C11 as stated: the fields map of create holds project, summary, issuetype,
\* description and exactly the keys of the optional flags given; the fields map
\* of update holds exactly the keys of the flags given; no value is null except
\* description on create.
C11_KeysExactlySupplied ==
    /\ (argv.cmd = "create" /\ requests # <<>>) =>
          /\ DOMAIN SentFields(1) =
                {"project", "summary", "issuetype", "description"} \cup SuppliedCreateKeys
          /\ NoNullExcept(SentFields(1), {"description"})
    /\ (argv.cmd = "update" /\ requests # <<>>) =>
          /\ DOMAIN SentFields(1) = SuppliedUpdateKeys
          /\ NoNullExcept(SentFields(1), {})

\* C11, amended: as stated, with a second exception: on update the key
\* issuetype is present also when --parent is given without --issue-type
\* (it then carries the default "Sub-task").
C11_KeysSuppliedOrDefaulted ==
    /\ (argv.cmd = "create" /\ requests # <<>>) =>
          /\ DOMAIN SentFields(1) =
                {"project", "summary", "issuetype", "description"} \cup SuppliedCreateKeys
          /\ NoNullExcept(SentFields(1), {"description"})
    /\ (argv.cmd = "update" /\ requests # <<>>) =>
          /\ DOMAIN SentFields(1) =
                SuppliedUpdateKeys \cup (IF IsSome(argv.parent) THEN {"issuetype"} ELSE {})
          /\ NoNullExcept(SentFields(1), {})

C11_Witness ==
    /\ argv.cmd = "update" /\ Len(requests) = 1
    /\ IsSome(argv.parent) /\ argv.issue_type = None /\ argv.labels = None
    /\ DOMAIN SentFields(1) = {"summary", "issuetype", "parent"}

AdfOf(text) ==
    [t |-> "obj", m |->
        [type |-> [t |-> "str", s |-> "doc"],
         version |-> [t |-> "num", n |-> 1],
         content |-> [t |-> "arr", a |-> <<
            [t |-> "obj", m |->
                [type |-> [t |-> "str", s |-> "paragraph"],
                 content |-> [t |-> "arr", a |-> <<
                    [t |-> "obj", m |->
                        [type |-> [t |-> "str", s |-> "text"],
                         text |-> [t |-> "str", s |-> text]]] >>]]] >>]]]

\* C12: on create the description field is always present, null without
\* --description and otherwise the single-paragraph ADF document whose one
\* text node carries the input unchanged; on update the key is absent without
\* --description and that same ADF document with it.
C12_DescriptionShape ==
    /\ (argv.cmd = "create" /\ requests # <<>>) =>
          /\ "description" \in DOMAIN SentFields(1)
          /\ argv.description = None => SentFields(1)["description"] = [t |-> "null"]
          /\ IsSome(argv.description) =>
                SentFields(1)["description"] = AdfOf(Unwrap(argv.description))
    /\ (argv.cmd = "update" /\ requests # <<>>) =>
          /\ argv.description = None => "description" \notin DOMAIN SentFields(1)
          /\ IsSome(argv.description) =>
                /\ "description" \in DOMAIN SentFields(1)
                /\ SentFields(1)["description"] = AdfOf(Unwrap(argv.description))

C12_Witness ==
    /\ argv.cmd = "create" /\ IsSome(argv.description) /\ Len(requests) = 1
    /\ SentFields(1)["description"].m["content"].a[1].m["content"].a[1].m["text"].s
          = Unwrap(argv.description)

RequiredVars == {"JIRA_BASE_URL", "JIRA_EMAIL", "JIRA_API_TOKEN"}
MissingVars == {v \in RequiredVars : env[v] = <<>>}

\* C13: when a required variable (JIRA_BASE_URL, JIRA_EMAIL, JIRA_API_TOKEN) is
\* unset, no request is ever sent and nothing is printed, and every command
\* that was parsed ends in the error naming a variable that is missing; when
\* the three are set, the settings load whether or not JIRA_PROJECT_KEY and
\* JIRA_DEFAULT_JQL are set.
C13_RequiredEnv ==
    /\ MissingVars # {} =>
          /\ requests = <<>> /\ stdout = <<>> /\ settings = <<>>
          /\ pc \in {"start", "parsed", "exit"}
          /\ Exited => Failed
          /\ (Exited /\ IsSome(cli)) =>
                (FailedWith("missing_env") /\ Unwrap(error).var \in MissingVars)
    /\ (MissingVars = {} /\ IsSome(cli) /\ pc # "parsed") =>
          (IsSome(settings) /\ ~FailedWith("missing_env"))
    /\ FailedWith("missing_env") => Unwrap(error).var \in RequiredVars

C13_Witness ==
    /\ MissingVars = {"JIRA_EMAIL", "JIRA_API_TOKEN"}
    /\ IsSome(cli) /\ Exited /\ requests = <<>>
    /\ FailedWith("missing_env") /\ Unwrap(error).var = "JIRA_EMAIL"

EndsWithSlash(q) == Len(q) > 0 /\ q[Len(q)] = "/"
NoDoubledSlash(q) == \A i \in 1..(Len(q) - 1) : ~(q[i] = "/" /\ q[i + 1] = "/")

\* C14: the stored base URL is JIRA_BASE_URL without its trailing slashes: it
\* does not end with "/", and every request URL is that base followed by
\* "/rest/api/3/..." with no doubled slash at the join.
C14_BaseUrlTrimmed ==
    IsSome(settings) =>
        LET raw == Unwrap(env["JIRA_BASE_URL"])
            base == Unwrap(settings).base_url
        IN /\ ~EndsWithSlash(base)
           /\ Len(base) <= Len(raw) /\ base = SubSeq(raw, 1, Len(base))
           /\ \A i \in (Len(base) + 1)..Len(raw) : raw[i] = "/"
           /\ \A r \in 1..Len(requests) :
                 LET url == requests[r].url
                 IN /\ Len(url) >= Len(base) + 6
                    /\ SubSeq(url, 1, Len(base)) = base
                    /\ SubSeq(url, Len(base) + 1, Len(base) + 6)
                          = <<"/", "rest", "/", "api", "/", "3">>
                    /\ NoDoubledSlash(url)

C14_Witness ==
    /\ env["JIRA_BASE_URL"] = <<<<"https://jira.test", "/", "/">>>>
    /\ Len(requests) = 2
    /\ \A r \in 1..2 : SubSeq(requests[r].url, 1, 3) = <<"https://jira.test", "/", "rest">>

Outstanding == Len(requests) - Len(responses)

\* C15: at most one request is outstanding at any time; create, list, view,
\* update and link send at most one request; transition sends at most two, a
\* GET then a POST, and the POST goes out only after the GET was answered 2xx
\* with a parsed transitions list from which the posted id was resolved.
C15_SequentialRequests ==
    /\ Outstanding \in {0, 1}
    /\ (Outstanding = 1) <=> (pc = "awaiting")
    /\ argv.cmd \in {"create", "list", "view", "update", "link"} => Len(requests) <= 1
    /\ argv.cmd = "transition" =>
          /\ Len(requests) <= 2
          /\ Len(requests) >= 1 => requests[1].method = "GET"
          /\ Len(requests) = 2 =>
                /\ requests[2].method = "POST"
                /\ FetchedList
                /\ \E i \in 1..Len(TheList) :
                      /\ HasStringId(TheList[i])
                      /\ SentBody(2) = JObj([transition |-> JObj([id |-> TheList[i].m["id"]])])

C15_Witness ==
    /\ argv.cmd = "transition" /\ Len(requests) = 2 /\ Len(responses) = 1
    /\ pc = "awaiting" /\ FetchedList

NoRequestTwice ==
    \A i, j \in 1..Len(requests) : i # j => requests[i] # requests[j]

\* C16: every error is terminal: once an error occurred nothing changes any
\* more (no request is sent, nothing is printed), the process has exited with
\* nothing on standard output; no request is sent twice; a JSON result is
\* printed only at the exit of a command that succeeded, every request answered.
C16_ErrorsTerminal ==
    /\ [][IsSome(error) =>
            (requests' = requests /\ responses' = responses /\ stdout' = stdout
                /\ error' = error /\ pc' = pc)]_vars
    /\ [](IsSome(error) => (pc = "exit" /\ stdout = <<>>))
    /\ []NoRequestTwice
    /\ [](stdout # <<>> =>
            (pc = "exit" /\ error = <<>> /\ Len(stdout) = 1 /\ Outstanding = 0))

C16_Witness ==
    /\ argv.cmd = "transition" /\ Len(requests) = 2 /\ Len(responses) = 2
    /\ FailedWith("status") /\ pc = "exit" /\ stdout = <<>>

\* C17: create sends project.key = --project when given, otherwise
\* JIRA_PROJECT_KEY; with neither it sends nothing and ends in the
\* project-key validation error.
C17_CreateProject ==
    argv.cmd = "create" =>
        /\ requests # <<>> =>
              /\ IsSome(argv.project) =>
                    SentFields(1)["project"] = JObj([key |-> JStr(Unwrap(argv.project))])
              /\ argv.project = <<>> =>
                    /\ IsSome(env["JIRA_PROJECT_KEY"])
                    /\ SentFields(1)["project"]
                          = JObj([key |-> JStr(Unwrap(env["JIRA_PROJECT_KEY"]))])
        /\ (argv.project = <<>> /\ env["JIRA_PROJECT_KEY"] = <<>>) =>
              /\ requests = <<>> /\ stdout = <<>>
              /\ pc # "awaiting"
              /\ Exited => Failed
              /\ (Exited /\ IsSome(settings)) => FailedWith("project_required")

C17_Witness ==
    /\ argv.cmd = "create" /\ IsSome(argv.project) /\ IsSome(env["JIRA_PROJECT_KEY"])
    /\ Unwrap(argv.project) # Unwrap(env["JIRA_PROJECT_KEY"])
    /\ Len(requests) = 1
    /\ SentFields(1)["project"] = JObj([key |-> JStr(Unwrap(argv.project))])

SubtasksPath(key) ==
    <<"/", "rest", "/", "api", "/", "3", "/", "issue", "/", key, "?fields=subtasks">>
\* what C18 expects on standard output for a JSON answer v
SubtasksOf(v) ==
    IF /\ v.t = "obj" /\ "fields" \in DOMAIN v.m
       /\ v.m["fields"].t = "obj" /\ "subtasks" \in DOMAIN v.m["fields"].m
    THEN v.m["fields"].m["subtasks"]
    ELSE [t |-> "arr", a |-> <<>>]

\* C18: view --subtasks on K sends exactly one GET /issue/K?fields=subtasks
\* and, on a 2xx JSON answer, prints the value at fields.subtasks unchanged,
\* or [] when the answer has no fields object or no subtasks member.
C18_ViewSubtasks ==
    (argv.cmd = "view" /\ argv.subtasks) =>
        /\ Len(requests) <= 1
        /\ requests # <<>> =>
              /\ requests[1].method = "GET"
              /\ requests[1].body = <<>>
              /\ UrlPath(1) = SubtasksPath(argv.key)
        /\ (Len(responses) = 1 /\ Answered2xx(1) /\ responses[1].body.kind = "json") =>
              /\ Succeeded
              /\ stdout = <<SubtasksOf(responses[1].body.json)>>

C18_Witness ==
    /\ argv.cmd = "view" /\ argv.subtasks /\ Succeeded
    /\ stdout = <<JArr(<<KeyObj("ACME-2")>>)>>

\* the JQL C19 expects: --jql, else JIRA_DEFAULT_JQL, else the project query
\* for --project, else for JIRA_PROJECT_KEY; <<>> when none is available
ExpectedJql ==
    IF IsSome(argv.jql) THEN argv.jql
    ELSE IF IsSome(env["JIRA_DEFAULT_JQL"]) THEN env["JIRA_DEFAULT_JQL"]
    ELSE IF IsSome(argv.project)
         THEN <<"project = " \o Unwrap(argv.project) \o " ORDER BY created DESC">>
    ELSE IF IsSome(env["JIRA_PROJECT_KEY"])
         THEN <<"project = " \o Unwrap(env["JIRA_PROJECT_KEY"]) \o " ORDER BY created DESC">>
    ELSE <<>>

\* C19: list sends the JQL chosen by that precedence, with maxResults equal
\* to --limit (20 by default); when none of the four sources is available it
\* sends nothing and ends in an error.
C19_ListJql ==
    argv.cmd = "list" =>
        /\ requests # <<>> =>
              /\ IsSome(ExpectedJql)
              /\ SentBody(1) = JObj([jql |-> JStr(Unwrap(ExpectedJql)),
                                     maxResults |-> JNum(IF IsSome(argv.limit)
                                                         THEN Unwrap(argv.limit) ELSE 20)])
        /\ ExpectedJql = <<>> =>
              /\ requests = <<>> /\ stdout = <<>>
              /\ pc # "awaiting"
              /\ Exited => Failed
              /\ (Exited /\ IsSome(settings)) => FailedWith("no_jql")
        /\ (IsSome(ExpectedJql) /\ IsSome(settings) /\ pc # "loaded") => Len(requests) = 1

C19_Witness ==
    /\ argv.cmd = "list" /\ argv.jql = <<>> /\ IsSome(argv.project)
    /\ IsSome(env["JIRA_DEFAULT_JQL"]) /\ argv.limit = <<>>
    /\ Len(requests) = 1
    /\ SentBody(1).m["jql"] = JStr(Unwrap(env["JIRA_DEFAULT_JQL"]))
    /\ SentBody(1).m["maxResults"] = JNum(20)

====
